---- MODULE Spec2Model ----
(***************************************************************************)
(* Model of the Thrustmaster wheel initialisation driver (tminit.c,        *)
(* hid-tminit.c, tminit.h).  One session is one attached device: the       *)
(* driver thread runs probe and later disconnect, the USB core gives the   *)
(* session's single URB back and runs its completion handler.              *)
(***************************************************************************)
EXTENDS Integers, Sequences, FiniteSets, TLC

VARIABLES
    bigEndian,    \* byte order of the host CPU (fixed per build)
    frontend,     \* "hid" (hid-tminit.c) or "usb" (tminit.c usb_driver)
    idProduct,    \* product id the device reports (wire value)
    numEndpoints, \* bNumEndpoints of the interface's current altsetting
    pc,           \* position of the driver thread
    mem,          \* allocation state of tm_wheel and of its four buffers
    refs,         \* references held on the usb device and the interface
    hw,           \* whether hid_hw_start is in effect
    probe_ret,    \* value returned by the front-end's probe
    urb,          \* fields of tm_wheel->urb the driver and usb core use
    inflight,     \* queue of control requests on endpoint 0 (wire setup packets)
    handler,      \* completion handler the usb core is executing
    response,     \* bytes of tm_wheel->response
    change_wValue,\* tm_wheel->change_request->wValue as the host reads it
    decoded,      \* model and attachment the model handler read from the reply
    twi,          \* catalog index the model handler resolved (NULL if none)
    submits,      \* every usb_submit_urb call made so far, in order, each with
                  \* the number of interrupt messages sent before it
    intr_sent,    \* the usb_interrupt_msg calls made so far, in order
    log           \* messages printed with dev_info/dev_warn/dev_err

vars == <<bigEndian, frontend, idProduct, numEndpoints, pc, mem, refs, hw,
          probe_ret, urb, inflight, handler, response, change_wValue, decoded,
          twi, submits, intr_sent, log>>

----------------------------------------------------------------------------
(* Bounds of the model *)

MaxModel == 4          \* model codes the device may report: 0..MaxModel
MaxAttachment == 9     \* attachment codes the device may report
MaxSubmits == 3        \* cap on recorded usb_submit_urb calls

----------------------------------------------------------------------------
(* Error numbers and status values *)

ENOENT == 2
ENOMEM == 12
EPERM == 1
EPIPE == 32
EPROTO == 71
ESHUTDOWN == 108

NULL == -1

\* status a device or host controller can report for a finished transfer
Statuses == {0, -EPROTO, -EPIPE, -ESHUTDOWN}

\* results of usb_submit_urb when the URB is not being killed
SubmitRets == {0, -ENOMEM}

----------------------------------------------------------------------------
(* Byte order *)

swab16(x) == (x % 256) * 256 + (x \div 256)

cpu_to_le16(x) == IF bigEndian THEN swab16(x) ELSE x

le16_to_cpu(x) == IF bigEndian THEN swab16(x) ELSE x

\* the 16-bit number the host reads from two consecutive bytes of memory
mem16(b0, b1) == IF bigEndian THEN b0 * 256 + b1 ELSE b0 + 256 * b1

\* the two bytes, in memory order, of a 16-bit number the host stored
bytes16(x) == IF bigEndian THEN <<x \div 256, x % 256>> ELSE <<x % 256, x \div 256>>

\* the value a little-endian wire field has, given the host's stored number
wire16(x) == bytes16(x)[1] + 256 * bytes16(x)[2]

----------------------------------------------------------------------------
(* Model catalog *)

tm_wheels_infos == <<
    [model |-> 0, attachment |-> 2, switch_value |-> 2,  wheel_name |-> "Thrustmaster T500RS"],
    [model |-> 2, attachment |-> 0, switch_value |-> 5,  wheel_name |-> "Thrustmaster T300RS (Missing Attachment)"],
    [model |-> 2, attachment |-> 3, switch_value |-> 5,  wheel_name |-> "Thrustmaster T300RS (F1 attachment)"],
    [model |-> 2, attachment |-> 4, switch_value |-> 5,  wheel_name |-> "Thrustmaster T300 Ferrari Alcantara Edition"],
    [model |-> 2, attachment |-> 6, switch_value |-> 5,  wheel_name |-> "Thrustmaster T300RS"],
    [model |-> 2, attachment |-> 9, switch_value |-> 5,  wheel_name |-> "Thrustmaster T300RS (Open Wheel Attachment)"],
    [model |-> 3, attachment |-> 6, switch_value |-> 6,  wheel_name |-> "Thrustmaster T150RS"],
    [model |-> 0, attachment |-> 9, switch_value |-> 11, wheel_name |-> "Thrustmaster T128"] >>

tm_wheels_infos_length == 8

\* tm_wheels_infos[i] with the C code's zero-based index
info(i) == tm_wheels_infos[i + 1]

----------------------------------------------------------------------------
(* Control packets *)

\* setup packet as it travels on the wire, built from the host's struct
wire_setup(bRequestType, bRequest, wValue, wIndex, wLength) ==
    [bRequestType |-> bRequestType, bRequest |-> bRequest,
     wValue |-> wire16(wValue), wIndex |-> wire16(wIndex),
     wLength |-> wire16(wLength)]

model_request ==
    [bRequestType |-> 193, bRequest |-> 73, wValue |-> 0, wIndex |-> 0,
     wLength |-> cpu_to_le16(16)]

change_request ==
    [bRequestType |-> 65, bRequest |-> 83, wValue |-> 0, wIndex |-> 0,
     wLength |-> 0]

ResponseSize == 14

ZeroResponse == [i \in 1..ResponseSize |-> 0]

----------------------------------------------------------------------------
(* Pre-init interrupt packets *)

setup_arr == <<
    <<66, 1, 0, 0, 0, 0, 0, 0, 0>>,
    <<10, 4, 144, 3, 0, 0, 0, 0>>,
    <<10, 4, 0, 12, 0, 0, 0, 0>>,
    <<10, 4, 18, 16, 0, 0, 0, 0>>,
    <<10, 4, 0, 6, 0, 0, 0, 0>> >>

setup_arr_length == 5

ETIMEDOUT == 110

\* usb_interrupt_msg of setup_arr[i]: the packet, its bytes and the result
interrupt_msg(i, failAt) ==
    [packet |-> i, data |-> setup_arr[i + 1],
     ret |-> IF i = failAt THEN -ETIMEDOUT ELSE 0]

RECURSIVE send_setup_all(_, _, _)
send_setup_all(i, sent, failAt) ==
    IF i < setup_arr_length
    THEN send_setup_all(i + 1, Append(sent, interrupt_msg(i, failAt)), failAt)
    ELSE [sent |-> sent,
          log |-> IF failAt < setup_arr_length
                  THEN {"setup data couldn't be sent"} ELSE {}]

RECURSIVE send_setup(_, _, _)
\* the for loop of thrustmaster_interrupts: setup_arr[i] is sent; the loop
\* stops at the first packet whose usb_interrupt_msg fails (index failAt)
send_setup(i, sent, failAt) ==
    IF i < setup_arr_length
    THEN IF interrupt_msg(i, failAt).ret # 0
         THEN [sent |-> Append(sent, interrupt_msg(i, failAt)),
               log |-> {"setup data couldn't be sent"}]
         ELSE send_setup(i + 1, Append(sent, interrupt_msg(i, failAt)), failAt)
    ELSE [sent |-> sent, log |-> {}]

enough_endpoints_one(n) == n >= 1

\* line 115: bNumEndpoints < 2 is refused
enough_endpoints(n) == n >= 2

thrustmaster_interrupts(buf_ok, bNumEndpoints, failAt) ==
    IF ~buf_ok
    THEN [sent |-> <<>>, log |-> {"failed allocating send buffer"}]
    ELSE IF ~enough_endpoints(bNumEndpoints)
         THEN [sent |-> <<>>, log |-> {"Wrong number of endpoints?"}]
         ELSE send_setup(0, <<>>, failAt)

----------------------------------------------------------------------------
(* Decoding the reply to request 73 *)

response_type(r) == mem16(r[1], r[2])

data_a_attachment(r) == r[7]

data_a_model_swapped(r) == r[7]

data_a_model(r) == r[8]
data_b_attachment(r) == r[7]
data_b_model(r) == r[8]

\* line 206: type == cpu_to_le16(0x49)
type_is_a(t) == t = cpu_to_le16(73)

type_is_b_any(t) == TRUE

\* line 209: type == cpu_to_le16(0x47)
type_is_b(t) == t = cpu_to_le16(71)

\* the locals model and attachment as initialised at lines 193-194
NotDecoded == [known |-> FALSE, model |-> 0, attachment |-> 0]

\* lines 206-217 of thrustmaster_model_handler
decode(r) ==
    IF type_is_a(response_type(r))
    THEN [known |-> TRUE, model |-> data_a_model(r), attachment |-> data_a_attachment(r)]
    ELSE IF type_is_b(response_type(r))
         THEN [known |-> TRUE, model |-> data_b_model(r), attachment |-> data_b_attachment(r)]
         ELSE NotDecoded

----------------------------------------------------------------------------
(* Resolving (model, attachment) in the catalog *)

model_hit_le(i, model) == info(i).model <= model

model_hit(i, model) == info(i).model = model

attachment_hit_any(i, attachment) == TRUE

attachment_hit(i, attachment) == info(i).attachment = attachment

RECURSIVE find_model(_, _, _)
\* first loop: for (i = 0; i < tm_wheels_infos_length && !twi; i++)
find_model(i, t, model) ==
    IF i < tm_wheels_infos_length /\ t = NULL
    THEN find_model(i + 1, IF model_hit(i, model) THEN i ELSE t, model)
    ELSE [i |-> i, twi |-> t]

RECURSIVE find_attachment(_, _, _, _, _)
\* second loop: runs while no attachment was found and entry i has the model
find_attachment(i, t, attachment_found, model, attachment) ==
    IF ~attachment_found /\ i < tm_wheels_infos_length /\ info(i).model = model
    THEN IF attachment_hit(i, attachment)
         THEN find_attachment(i + 1, i, TRUE, model, attachment)
         ELSE find_attachment(i + 1, t, attachment_found, model, attachment)
    ELSE t

\* the catalog index the model handler selects, or NULL
resolve(model, attachment) ==
    LET f == find_model(0, NULL, model)
    IN  IF f.twi # NULL
        THEN find_attachment(f.i, f.twi, info(f.twi).attachment = attachment,
                             model, attachment)
        ELSE NULL

----------------------------------------------------------------------------
(* Devices each front-end binds to *)

\* product id 0xb69c
T128 == 46748

thrustmaster_hid_devices == {46685, 46692, T128}

thrustmaster_usb_devices == {T128}

Buffers == {"tm_wheel", "urb", "model_request", "response", "change_request"}

----------------------------------------------------------------------------
(* Memory and reference counting *)

kmalloc(m, b) == [m EXCEPT ![b] = "live"]

\* kfree / usb_free_urb: a null pointer is ignored, a second free is an error
kfree(m, b) ==
    [m EXCEPT ![b] = IF m[b] = "live" THEN "freed"
                     ELSE IF m[b] = "unalloc" THEN "unalloc"
                     ELSE "double_free"]

usb_get(r, k) == [r EXCEPT ![k] = r[k] + 1]

usb_put(r, k) == [r EXCEPT ![k] = r[k] - 1]

----------------------------------------------------------------------------
(* Submitting the URB *)

\* usb_submit_urb on tm_wheel->urb, called with the wire form of the setup
\* packet the URB points to.  While usb_kill_urb is in progress the
\* submission is refused; otherwise the usb core answers ret0: it queues the
\* request or refuses it for a reason of its own (the driver only tests for
\* a nonzero result).
usb_submit_urb(S, pkt, ctx, ret0) ==
    LET ret == IF S.urb.reject > 0 THEN -EPERM ELSE ret0
    IN  [S EXCEPT
           !.urb = IF ret = 0
                   THEN [S.urb EXCEPT !.use_count = S.urb.use_count + 1,
                                      !.unlinked = FALSE]
                   ELSE S.urb,
           !.inflight = IF ret = 0 THEN Append(S.inflight, pkt) ELSE S.inflight,
           !.submits = Append(S.submits, [pkt |-> pkt, ret |-> ret, ctx |-> ctx,
                                          intr |-> Len(S.intr_sent)]),
           !.ret = ret]

submit_failed_never(ret) == FALSE

\* line 175: if (ret)
submit_failed(ret) == ret # 0

change_wValue_raw(switch_value) == switch_value

\* line 163: the value stored in change_request->wValue
change_wValue_of(switch_value) == cpu_to_le16(switch_value)

change_complete_model == "model"

\* line 170: completion handler of the change URB
change_complete == "change"

thrustmaster_submit_change(S, switch_value, ctx, ret0) ==
    LET wv == change_wValue_of(switch_value)
        F  == [S EXCEPT !.change_wValue = wv,
                        !.urb = [S.urb EXCEPT !.complete = change_complete]]
        R  == usb_submit_urb(F,
                  wire_setup(change_request.bRequestType, change_request.bRequest,
                             wv, change_request.wIndex, change_request.wLength),
                  ctx, ret0)
    IN  IF submit_failed(R.ret)
        THEN [R EXCEPT !.log = R.log \cup {"Error while submitting the change URB"}]
        ELSE R

----------------------------------------------------------------------------
(* thrustmaster_probe *)

EINVAL == 22

T128SwitchValue_T300 == info(4).switch_value

\* line 305: the hard-coded switch value of the T128
T128SwitchValue == 11

ProbeEarlySwitch_b65d(product) == product \in {T128, 46685}

\* lines 300-301: switch (le16_to_cpu(idProduct)) { case 0xb69c:
ProbeEarlySwitch(product) == product = T128

probe_falls_through == FALSE

\* line 309: the T128 case returns once the change URB is submitted
probe_returns_after_change == TRUE

\* udev->descriptor.idProduct: a little-endian field in host memory
descriptor_idProduct == IF bigEndian THEN swab16(idProduct) ELSE idProduct

probe_unwind_keeps_dev(S, label, ret) ==
    [S EXCEPT !.mem = [b \in DOMAIN S.mem |->
                          IF S.mem[b] = "live" /\ b # "tm_wheel" THEN "freed"
                          ELSE S.mem[b]],
              !.refs = [S.refs EXCEPT !.intf = 0],
              !.ret = ret]

\* labels error6 .. error2 of thrustmaster_probe, entered at `label`
probe_unwind(S, label, ret) ==
    LET m1 == IF label >= 6 THEN kfree(S.mem, "change_request") ELSE S.mem
        m2 == IF label >= 5 THEN kfree(m1, "response") ELSE m1
        r1 == IF label >= 5 /\ S.interface # NULL
              THEN usb_put(S.refs, "intf") ELSE S.refs
        m3 == IF label >= 4 THEN kfree(m2, "model_request") ELSE m2
        m4 == IF label >= 3 THEN kfree(m3, "urb") ELSE m3
    IN  [S EXCEPT !.mem = m4, !.refs = usb_put(r1, "dev"), !.ret = ret]

\* lines 300-333: from the switch on the product id to the return
probe_start(E, buf_ok, bNumEndpoints, failAt, ret1, ret2) ==
    LET early == ProbeEarlySwitch(le16_to_cpu(descriptor_idProduct))
        X == IF early
             THEN thrustmaster_submit_change(E, T128SwitchValue, "probe", ret1)
             ELSE E
    IN  IF early /\ X.ret # 0 THEN probe_unwind(X, 6, X.ret)
        ELSE IF early /\ probe_returns_after_change THEN X
        ELSE LET I == thrustmaster_interrupts(buf_ok, bNumEndpoints, failAt)
                 Y == [X EXCEPT !.intr_sent = I.sent,
                                !.log = X.log \cup I.log,
                                !.urb = [X.urb EXCEPT !.complete = "model"]]
                 Z == usb_submit_urb(Y,
                          wire_setup(model_request.bRequestType, model_request.bRequest,
                                     model_request.wValue, model_request.wIndex,
                                     model_request.wLength),
                          "probe", ret2)
             IN  IF Z.ret # 0
                 THEN probe_unwind(
                          [Z EXCEPT !.log = Z.log \cup {"Error while submitting the URB"}],
                          6, Z.ret)
                 ELSE Z

\* lines 261-298: references and allocations, alloc_fail names the one that fails
thrustmaster_probe(S0, alloc_fail, buf_ok, bNumEndpoints, failAt, ret1, ret2) ==
    LET A == [S0 EXCEPT !.refs = usb_get(S0.refs, "dev")]
        B == [A EXCEPT !.mem = kmalloc(A.mem, "urb")]
        C == [B EXCEPT !.mem = kmalloc(B.mem, "model_request")]
        D == [C EXCEPT !.mem = kmalloc(C.mem, "response")]
        E == [D EXCEPT !.mem = kmalloc(D.mem, "change_request"),
                       !.change_wValue = change_request.wValue,
                       !.refs = usb_get(D.refs, "intf"),
                       !.interface = 0]
    IN  IF alloc_fail = "urb" THEN probe_unwind(A, 2, -ENOMEM)
        ELSE IF alloc_fail = "model_request" THEN probe_unwind(B, 3, -ENOMEM)
        ELSE IF alloc_fail = "response" THEN probe_unwind(C, 4, -ENOMEM)
        ELSE IF alloc_fail = "change_request" THEN probe_unwind(D, 5, -ENOMEM)
        ELSE probe_start(E, buf_ok, bNumEndpoints, failAt, ret1, ret2)

\* hid-tminit.c thrustmaster_hid_probe
thrustmaster_hid_probe(S0, fail, buf_ok, bNumEndpoints, failAt, ret1, ret2) ==
    IF fail = "tm_wheel" THEN [S0 EXCEPT !.ret = -ENOMEM]
    ELSE LET A == [S0 EXCEPT !.mem = kmalloc(S0.mem, "tm_wheel")]
         IN  IF fail \in {"hid_parse", "hid_hw_start"}
             THEN [A EXCEPT !.mem = kfree(A.mem, "tm_wheel"), !.ret = -EINVAL]
             ELSE LET P == thrustmaster_probe([A EXCEPT !.hw = TRUE], fail, buf_ok,
                                              bNumEndpoints, failAt, ret1, ret2)
                  IN  IF P.ret # 0
                      THEN [P EXCEPT !.hw = FALSE, !.mem = kfree(P.mem, "tm_wheel")]
                      ELSE P

\* tminit.c thrustmaster_usb_probe
thrustmaster_usb_probe(S0, fail, buf_ok, bNumEndpoints, failAt, ret1, ret2) ==
    IF fail = "tm_wheel" THEN [S0 EXCEPT !.ret = -ENOMEM]
    ELSE LET A == [S0 EXCEPT !.mem = kmalloc(S0.mem, "tm_wheel")]
             P == thrustmaster_probe(A, fail, buf_ok, bNumEndpoints, failAt, ret1, ret2)
         IN  IF P.ret # 0
             THEN [P EXCEPT !.mem = kfree(P.mem, "tm_wheel")]
             ELSE P

ProbeFails ==
    {"none", "tm_wheel", "urb", "model_request", "response", "change_request"}
    \cup (IF frontend = "hid" THEN {"hid_parse", "hid_hw_start"} ELSE {})

\* the session's fields gathered in one record, as the operators above use them
Session ==
    [mem |-> mem, refs |-> refs, hw |-> hw, urb |-> urb, inflight |-> inflight,
     change_wValue |-> change_wValue, submits |-> submits,
     intr_sent |-> intr_sent, log |-> log, ret |-> 0,
     interface |-> IF pc = "unbound" THEN NULL ELSE 0]

Store(S) ==
    /\ mem' = S.mem
    /\ refs' = S.refs
    /\ hw' = S.hw
    /\ urb' = S.urb
    /\ inflight' = S.inflight
    /\ change_wValue' = S.change_wValue
    /\ submits' = S.submits
    /\ intr_sent' = S.intr_sent
    /\ log' = S.log

Init ==
    /\ bigEndian \in BOOLEAN
    /\ frontend \in {"hid", "usb"}
    /\ idProduct \in (IF frontend = "hid" THEN thrustmaster_hid_devices
                                          ELSE thrustmaster_usb_devices)
    /\ numEndpoints \in {1, 2}
    /\ pc = "unbound"
    /\ mem = [b \in Buffers |-> "unalloc"]
    /\ refs = [dev |-> 0, intf |-> 0]
    /\ hw = FALSE
    /\ probe_ret = 0
    /\ urb = [reject |-> 0, use_count |-> 0, complete |-> "none", status |-> 0,
              actual_length |-> 0, unlinked |-> FALSE]
    /\ inflight = <<>>
    /\ handler = "none"
    /\ response = ZeroResponse
    /\ change_wValue = 0
    /\ decoded = NotDecoded
    /\ twi = NULL
    /\ submits = <<>>
    /\ intr_sent = <<>>
    /\ log = {}

\* the device is attached: the bus calls the front-end's probe
Probe ==
    /\ pc = "unbound"
    /\ \E fail \in ProbeFails, buf_ok \in BOOLEAN,
          failAt \in 0..setup_arr_length, ret1 \in SubmitRets, ret2 \in SubmitRets :
          LET R == IF frontend = "hid"
                   THEN thrustmaster_hid_probe(Session, fail, buf_ok, numEndpoints,
                                               failAt, ret1, ret2)
                   ELSE thrustmaster_usb_probe(Session, fail, buf_ok, numEndpoints,
                                               failAt, ret1, ret2)
          IN  /\ Store(R)
              /\ probe_ret' = R.ret
              /\ pc' = IF R.ret = 0 THEN "bound" ELSE "probe_failed"
    /\ UNCHANGED <<bigEndian, frontend, idProduct, numEndpoints, handler, response, decoded, twi>>

----------------------------------------------------------------------------
(* The device's answer and the usb core giving the URB back *)

\* tags a device may put in the first two bytes of its reply (wire values):
\* 0x0049, 0x0047, 0x0001 and the byte-swapped 0x4900
DeviceTags == {73, 71, 1, 18688}

\* number of bytes the device may transfer: nothing, half the tag, the tag
\* alone, up to the attachment, up to the model (the whole B layout), or
\* the whole A layout
ReplyLengths == {0, 1, 2, 7, 8, ResponseSize}

\* values the device may put in every byte of the fields the driver ignores
ReservedBytes == {0, 255}

\* a full reply on the wire: little-endian tag, attachment and model at byte
\* offsets 6 and 7, every byte of the other fields set to fill
ReplyByte(tag, attachment, model, fill, i) ==
    IF i = 1 THEN tag % 256
    ELSE IF i = 2 THEN tag \div 256
    ELSE IF i = 7 THEN attachment
    ELSE IF i = 8 THEN model
    ELSE fill

Reply(tag, attachment, model, fill) ==
    [i \in 1..ResponseSize |-> ReplyByte(tag, attachment, model, fill, i)]

\* the replies the device may give, cut to the bytes it transfers
Replies ==
    {[n |-> n,
      bytes |-> [i \in 1..ResponseSize |->
                    IF i <= n THEN ReplyByte(tag, attachment, model, fill, i) ELSE 0]] :
        tag \in DeviceTags, attachment \in 0..MaxAttachment,
        model \in 0..MaxModel, fill \in ReservedBytes, n \in ReplyLengths}

\* what a transfer that ends with an error may have left in the buffer:
\* nothing, or the two bytes of the tag
PartialReplies == {r \in Replies : r.n \in {0, 2}}

\* the transfer ends with an error status (-ENOENT when it was unlinked):
\* the oldest request leaves the endpoint queue and urb->complete is called;
\* an IN transfer may have received its first bytes before it failed
giveback_error ==
    /\ inflight # <<>>
    /\ handler = "none"
    /\ inflight' = Tail(inflight)
    /\ \E st \in (IF urb.unlinked THEN {-ENOENT} ELSE Statuses \ {0}) :
          IF Head(inflight).bRequestType >= 128
          THEN \E r \in PartialReplies :
                  /\ response' = [i \in 1..ResponseSize |->
                                     IF i <= r.n THEN r.bytes[i] ELSE response[i]]
                  /\ urb' = [urb EXCEPT !.status = st, !.actual_length = r.n]
          ELSE /\ response' = response
               /\ urb' = [urb EXCEPT !.status = st, !.actual_length = 0]
    /\ handler' = urb.complete
    /\ UNCHANGED <<bigEndian, frontend, idProduct, numEndpoints, pc, mem, refs, hw,
                   probe_ret, change_wValue, decoded, twi, submits, intr_sent, log>>

\* the transfer ends with status 0; an IN transfer has filled the first
\* bytes of the transfer buffer, the rest of the buffer keeps its content
giveback_ok_of(replies) ==
    /\ inflight # <<>>
    /\ handler = "none"
    /\ ~urb.unlinked
    /\ inflight' = Tail(inflight)
    /\ IF Head(inflight).bRequestType >= 128
       THEN \E r \in replies :
               /\ response' = [i \in 1..ResponseSize |->
                                  IF i <= r.n THEN r.bytes[i] ELSE response[i]]
               /\ urb' = [urb EXCEPT !.status = 0, !.actual_length = r.n]
       ELSE /\ response' = response
            /\ urb' = [urb EXCEPT !.status = 0, !.actual_length = 0]
    /\ handler' = urb.complete
    /\ UNCHANGED <<bigEndian, frontend, idProduct, numEndpoints, pc, mem, refs, hw, probe_ret,
                   change_wValue, decoded, twi, submits, intr_sent, log>>

giveback_ok == giveback_ok_of(Replies)

----------------------------------------------------------------------------
(* Completion handlers *)

query_failed_never(status) == FALSE

\* line 201: if (urb->status)
query_failed(status) == status # 0

\* lines 201-239: what thrustmaster_model_handler decides before line 241
model_handler_result(status, r) ==
    IF query_failed(status)
    THEN [log |-> "URB to get model id failed", twi |-> NULL, decoded |-> NotDecoded]
    ELSE IF ~decode(r).known
         THEN [log |-> "Unknown packet type", twi |-> NULL, decoded |-> decode(r)]
         ELSE LET t == resolve(decode(r).model, decode(r).attachment)
              IN  IF t # NULL
                  THEN [log |-> info(t).wheel_name, twi |-> t, decoded |-> decode(r)]
                  ELSE [log |-> "Unknown wheel's model id", twi |-> NULL,
                        decoded |-> decode(r)]

thrustmaster_model_handler ==
    /\ handler = "model"
    /\ Len(submits) < MaxSubmits
    /\ \E ret0 \in SubmitRets :
          LET res == model_handler_result(urb.status, response)
              S1  == [Session EXCEPT !.log = log \cup {res.log}]
              S2  == IF res.twi # NULL
                     THEN thrustmaster_submit_change(S1, info(res.twi).switch_value,
                                                     "model_handler", ret0)
                     ELSE S1
          IN  /\ Store(S2)
              /\ twi' = res.twi
              /\ decoded' = res.decoded
    /\ handler' = "model_done"
    /\ UNCHANGED <<bigEndian, frontend, idProduct, numEndpoints, pc, probe_ret, response>>

change_status_ok_strict(status) == status = 0

\* line 151: the statuses the change handler reports as success
change_status_ok(status) == status = 0 \/ status = -EPROTO \/ status = -EPIPE

thrustmaster_change_handler ==
    /\ handler = "change"
    /\ log' = log \cup {IF change_status_ok(urb.status)
                        THEN "Success, the wheel should have been initialized!"
                        ELSE "URB to change wheel mode seems to have failed"}
    /\ handler' = "change_done"
    /\ UNCHANGED <<bigEndian, frontend, idProduct, numEndpoints, pc, mem, refs, hw, probe_ret,
                   urb, inflight, response, change_wValue, decoded, twi, submits, intr_sent>>

\* the completion handler returned: the usb core drops its use of the URB
giveback_return ==
    /\ handler \in {"model_done", "change_done"}
    /\ handler' = "none"
    /\ urb' = [urb EXCEPT !.use_count = urb.use_count - 1]
    /\ UNCHANGED <<bigEndian, frontend, idProduct, numEndpoints, pc, mem, refs, hw, probe_ret,
                   inflight, response, change_wValue, decoded, twi, submits, intr_sent, log>>

----------------------------------------------------------------------------
(* Detach *)

kill_returns_at_once(u) == TRUE

\* usb_kill_urb returns once no one uses the URB any more
kill_returns(u) == u.use_count = 0

\* the front-end's disconnect up to the point where usb_kill_urb (line 246)
\* has marked the URB as rejected and asked for it to be unlinked
disconnect_kill ==
    /\ pc = "bound"
    /\ refs' = IF frontend = "usb"
               THEN usb_put(usb_put(refs, "intf"), "dev")
               ELSE refs
    /\ urb' = [urb EXCEPT !.reject = urb.reject + 1,
                          !.unlinked = (inflight # <<>>)]
    /\ pc' = "killing"
    /\ UNCHANGED <<bigEndian, frontend, idProduct, numEndpoints, mem, hw, probe_ret, inflight,
                   handler, response, change_wValue, decoded, twi, submits, intr_sent, log>>

\* usb_kill_urb waits until the URB is idle, then returns
disconnect_wait ==
    /\ pc = "killing"
    /\ kill_returns(urb)
    /\ urb' = [urb EXCEPT !.reject = urb.reject - 1]
    /\ pc' = "killed"
    /\ UNCHANGED <<bigEndian, frontend, idProduct, numEndpoints, mem, refs, hw, probe_ret,
                   inflight, handler, response, change_wValue, decoded, twi, submits,
                   intr_sent, log>>

\* lines 248-252, then hid_hw_stop in the hid front-end
disconnect_free ==
    /\ pc = "killed"
    /\ mem' = kfree(kfree(kfree(kfree(kfree(mem, "change_request"), "response"),
                          "model_request"), "urb"), "tm_wheel")
    /\ hw' = IF frontend = "hid" THEN FALSE ELSE hw
    /\ pc' = "detached"
    /\ UNCHANGED <<bigEndian, frontend, idProduct, numEndpoints, refs, probe_ret, urb, inflight,
                   handler, response, change_wValue, decoded, twi, submits, intr_sent, log>>

----------------------------------------------------------------------------

Next ==
    \/ Probe
    \/ giveback_error
    \/ giveback_ok
    \/ thrustmaster_model_handler
    \/ thrustmaster_change_handler
    \/ giveback_return
    \/ disconnect_kill
    \/ disconnect_wait
    \/ disconnect_free

Spec == Init /\ [][Next]_vars

TypeOK ==
    /\ pc \in {"unbound", "bound", "probe_failed", "killing", "killed", "detached"}
    /\ handler \in {"none", "model", "model_done", "change", "change_done"}
    /\ urb.use_count \in 0..2
    /\ urb.reject \in 0..1
    /\ twi \in {NULL} \cup 0..(tm_wheels_infos_length - 1)

----------------------------------------------------------------------------
(* Vocabulary of the properties *)

IsQuery(p) == p.bRequest = 73

IsSwitch(p) == p.bRequest = 83

QuerySubmits == {i \in 1..Len(submits) : IsQuery(submits[i].pkt)}

SwitchSubmits == {i \in 1..Len(submits) : IsSwitch(submits[i].pkt)}

\* what the device put in the response buffer, read byte by byte
ReplyTag == response[1] + 256 * response[2]
ReplyAttachment == response[7]
ReplyModel == response[8]

CatalogIndexes == 0..(tm_wheels_infos_length - 1)

InCatalog(model) == \E k \in CatalogIndexes : info(k).model = model

FirstOfModel(model) ==
    CHOOSE k \in CatalogIndexes :
        /\ info(k).model = model
        /\ \A j \in CatalogIndexes : info(j).model = model => k <= j

\* outcomes of the handshake, as the driver reports them
Done == "Success, the wheel should have been initialized!" \in log
SwitchTransportError == "URB to change wheel mode seems to have failed" \in log
QueryTransportError == "URB to get model id failed" \in log
UnrecognizedResponse == "Unknown packet type" \in log
UnknownModel == "Unknown wheel's model id" \in log
ModelResolved == \E k \in CatalogIndexes : info(k).wheel_name \in log

\* the query's completion handler has run to its end
QueryHandled ==
    QueryTransportError \/ UnrecognizedResponse \/ UnknownModel \/ ModelResolved

\* ... on a transfer without error whose tag is one of the two known ones
QueryDecoded ==
    QueryHandled /\ ~QueryTransportError /\ ReplyTag \in {73, 71}

----------------------------------------------------------------------------
(* Properties *)

\* C1: at most one control request is in flight at any time, so a query and
\* a switch command are never outstanding together
C1_SingleInFlight ==
    /\ Len(inflight) <= 1
    /\ ~(\E i, j \in 1..Len(inflight) : IsQuery(inflight[i]) /\ IsSwitch(inflight[j]))

C1_Witness ==
    /\ Len(submits) = 2
    /\ inflight # <<>>
    /\ IsSwitch(inflight[1])
    /\ submits[1].ret = 0
    /\ IsQuery(submits[1].pkt)

\* C2: once usb_kill_urb has returned in thrustmaster_disconnect, and so when
\* the buffers are released and ever after, no request is in flight and no
\* completion handler is running
C2_DetachQuiesces ==
    pc \in {"killed", "detached"} =>
        /\ inflight = <<>>
        /\ handler = "none"
        /\ urb.use_count = 0

C2_Witness ==
    /\ pc = "detached"
    /\ mem["response"] = "freed"
    /\ \E i \in 1..Len(submits) :
          /\ submits[i].ctx = "model_handler"
          /\ submits[i].ret = -EPERM

\* C3: once the change handler has run, the session is Done exactly when the
\* status was 0, -EPROTO or -EPIPE and has failed with SwitchTransportError
\* otherwise, and nothing is in flight or submitted again
C3_ChangeOutcome ==
    (Done \/ SwitchTransportError) =>
        /\ IF urb.status \in {0, -71, -32}
           THEN Done /\ ~SwitchTransportError
           ELSE SwitchTransportError /\ ~Done
        /\ inflight = <<>>
        /\ Cardinality(SwitchSubmits) = 1
        /\ handler \in {"change_done", "none"}

C3_Witness ==
    /\ Done
    /\ urb.status = -71
    /\ handler = "none"

C3_WitnessErrored ==
    /\ SwitchTransportError
    /\ urb.status = -108

\* C4: a query answered with a (model, attachment) pair that is an entry of
\* the catalog resolves to exactly that entry
C4_ExactEntry ==
    (handler = "model_done" /\ QueryDecoded) =>
        \A k \in CatalogIndexes :
            (info(k).model = ReplyModel /\ info(k).attachment = ReplyAttachment)
                => twi = k

\* C5: a model of the catalog with an attachment that is not among that
\* model's entries resolves to the first entry of the model, never to none,
\* and the switch command then carries that entry's switch value
C5_Fallback ==
    (/\ handler = "model_done"
     /\ QueryDecoded
     /\ InCatalog(ReplyModel)
     /\ ~\E k \in CatalogIndexes :
            info(k).model = ReplyModel /\ info(k).attachment = ReplyAttachment)
    => /\ twi = FirstOfModel(ReplyModel)
       /\ submits[Len(submits)].ctx = "model_handler"
       /\ submits[Len(submits)].pkt.wValue = info(FirstOfModel(ReplyModel)).switch_value

C5_Witness ==
    /\ handler = "model_done"
    /\ ReplyTag = 71
    /\ ReplyModel = 2
    /\ ReplyAttachment = 1
    /\ twi = 1
    /\ inflight # <<>>
    /\ inflight[1].wValue = 5

\* C6: a model that is in no catalog entry resolves to nothing: the session
\* fails with UnknownModel and never submits a switch command
C6_UnknownModel ==
    (QueryDecoded /\ ~InCatalog(ReplyModel)) =>
        /\ twi = NULL
        /\ UnknownModel
        /\ SwitchSubmits = {}
        /\ inflight = <<>>
        /\ ~Done

C6_Witness ==
    /\ QueryDecoded
    /\ ReplyModel = 1
    /\ UnknownModel
    /\ handler = "none"
    /\ pc = "bound"

\* C7 as stated: in every session, a switch command is submitted only once a
\* model has been resolved from a decoded query response
C7_SwitchAfterResolve_AllSessions ==
    SwitchSubmits # {} =>
        /\ twi # NULL
        /\ ModelResolved
        /\ ReplyTag \in {73, 71}
        /\ info(twi).model = ReplyModel

\* C7 amended: in every session of a device other than the T128 (product id
\* 0xb69c), a switch command is submitted only once a model has been resolved
\* from a decoded query response
C7_SwitchAfterResolve ==
    (idProduct # T128 /\ SwitchSubmits # {}) =>
        /\ twi # NULL
        /\ ModelResolved
        /\ ReplyTag \in {73, 71}
        /\ info(twi).model = ReplyModel
        /\ \A i \in SwitchSubmits : i > 1 /\ submits[i].ctx = "model_handler"
        /\ IsQuery(submits[1].pkt) /\ submits[1].ret = 0

C7_Witness ==
    /\ idProduct # T128
    /\ SwitchSubmits # {}
    /\ twi = 6

\* C8: in the whole session the query is submitted at most once and the
\* switch command at most once, whatever failed
C8_NoResubmission ==
    /\ Cardinality(QuerySubmits) <= 1
    /\ Cardinality(SwitchSubmits) <= 1

C8_Witness ==
    /\ SwitchTransportError
    /\ handler = "none"
    /\ pc = "bound"
    /\ Cardinality(QuerySubmits) = 1
    /\ Cardinality(SwitchSubmits) = 1

\* C9: a T128 (product id 0xb69c) session never submits the query and sends
\* no interrupt packet; probe submits the switch command with value 0x000b
\* and nothing else
C9_IdentityA ==
    idProduct = T128 =>
        /\ QuerySubmits = {}
        /\ intr_sent = <<>>
        /\ Len(submits) <= 1
        /\ \A i \in 1..Len(submits) :
              /\ IsSwitch(submits[i].pkt)
              /\ submits[i].pkt.wValue = 11
              /\ submits[i].ctx = "probe"
        /\ pc \notin {"unbound", "probe_failed"} => Len(submits) = 1
        /\ ~QueryHandled

C9_Witness ==
    /\ idProduct = T128
    /\ pc = "bound"
    /\ Done
    /\ handler = "none"
    /\ submits[1].pkt.wValue = 11

\* C10: after a query that completed without error with a known tag and a
\* model of the catalog, the switch command submitted next is a host-to-device
\* request 83 without payload whose value field is the switch value of the
\* resolved entry
C10_SwitchValue ==
    (handler = "model_done" /\ QueryDecoded /\ InCatalog(ReplyModel)) =>
        /\ twi # NULL
        /\ info(twi).model = ReplyModel
        /\ Len(submits) = 2
        /\ submits[2].ctx = "model_handler"
        /\ submits[2].pkt = [bRequestType |-> 65, bRequest |-> 83,
                             wValue |-> info(twi).switch_value,
                             wIndex |-> 0, wLength |-> 0]
        /\ (ReplyModel = 2 /\ ReplyAttachment = 6) =>
              /\ info(twi).wheel_name = "Thrustmaster T300RS"
              /\ submits[2].pkt.wValue = 5

C10_Witness ==
    /\ handler = "model_done"
    /\ bigEndian
    /\ ReplyTag = 73
    /\ ReplyModel = 2
    /\ ReplyAttachment = 6
    /\ inflight = <<[bRequestType |-> 65, bRequest |-> 83, wValue |-> 5,
                     wIndex |-> 0, wLength |-> 0]>>


\* C11: when the query's completion reports a transfer error, the session
\* fails with QueryTransportError: the response buffer is not decoded
\* (whatever the failed transfer left in it), no model is resolved, no other
\* outcome is reported and no switch command is ever submitted.
C11_QueryTransportError ==
    /\ (handler = "model_done" /\ urb.status # 0) => QueryTransportError
    /\ QueryTransportError =>
          /\ decoded = NotDecoded
          /\ twi = NULL
          /\ ~ModelResolved /\ ~UnknownModel /\ ~UnrecognizedResponse /\ ~Done
          /\ SwitchSubmits = {}
          /\ inflight = <<>>

\* the query failed although the first bytes of an 'A' reply had arrived
C11_Witness ==
    /\ QueryTransportError
    /\ handler = "none"
    /\ pc = "bound"
    /\ ReplyTag = 73
    /\ urb.actual_length = 2

\* C12: a response whose little-endian tag is neither 0x0049 nor 0x0047 is
\* reported as UnrecognizedResponse, whatever number of bytes was
\* transferred, and the session submits no switch command.
C12_UnrecognizedResponse ==
    (QueryHandled /\ ~QueryTransportError /\ ReplyTag \notin {73, 71}) =>
        /\ UnrecognizedResponse
        /\ ~decoded.known
        /\ twi = NULL
        /\ ~ModelResolved /\ ~UnknownModel /\ ~Done
        /\ SwitchSubmits = {}
        /\ inflight = <<>>

\* tag 0x0001 arrived in a full-length reply and was refused
C12_Witness ==
    /\ UnrecognizedResponse
    /\ ReplyTag = 1
    /\ handler = "none"
    /\ pc = "bound"
    /\ urb.actual_length = ResponseSize

\* number of bytes a reply needs to cover the tag and the attachment and
\* model fields (offsets 6 and 7 in both layouts)
BytesNeeded == 8

\* C13: a reply shorter than its layout requires is treated as an error: no
\* model is resolved from it and no switch command is submitted.
C13_ShortReplyIsError ==
    (handler = "model_done" /\ urb.status = 0 /\ urb.actual_length < BytesNeeded) =>
        /\ twi = NULL
        /\ ~ModelResolved
        /\ SwitchSubmits = {}


\* everything the session allocated has been freed, once
AllFreed == \A b \in Buffers : mem[b] \in {"unalloc", "freed"}

\* C14: detach succeeds from every handshake state through both front-ends,
\* and after it returns every resource acquired at attach is released
\* exactly once: the URB, the three buffers, the session record and the
\* references on the device and on the interface.
C14_DetachReleasesAll ==
    pc = "detached" =>
        /\ \A b \in Buffers : mem[b] = "freed"
        /\ refs = [dev |-> 0, intf |-> 0]
        /\ hw = FALSE
        /\ inflight = <<>>

\* C15: when session start fails, the probe returns a non-zero error, no
\* request is in flight and no completion will run, and everything acquired
\* before the failing step (buffers, URB, session record, device and
\* interface references) has been released exactly once.
C15_FailedStart ==
    pc = "probe_failed" =>
        /\ probe_ret # 0
        /\ inflight = <<>>
        /\ handler = "none"
        /\ urb.use_count = 0
        /\ AllFreed
        /\ refs = [dev |-> 0, intf |-> 0]
        /\ hw = FALSE

\* the transport refused the first submission after all four allocations
C15_Witness ==
    /\ pc = "probe_failed"
    /\ Len(submits) = 1
    /\ submits[1].ret # 0
    /\ \A b \in Buffers : mem[b] = "freed"


\* the probe went past the switch on the product id to the quirk sequence
QuirkPhase == pc # "unbound" /\ ~ProbeEarlySwitch(idProduct) /\ mem["change_request"] # "unalloc"

\* C16: for a device that is not Identity A the quirk packets go out in the
\* order setup_0..setup_4, each only after the previous one was
\* acknowledged, none after the first that fails, and the query is
\* submitted after the sequence whether it completed or was aborted.
C16_QuirkSequence ==
    /\ Len(intr_sent) <= setup_arr_length
    /\ \A k \in 1..Len(intr_sent) :
          /\ intr_sent[k].packet = k - 1
          /\ intr_sent[k].data = setup_arr[k]
          /\ k < Len(intr_sent) => intr_sent[k].ret = 0
    /\ QuirkPhase =>
          /\ submits # <<>>
          /\ IsQuery(submits[1].pkt)
          /\ submits[1].ctx = "probe"
          /\ submits[1].intr = Len(intr_sent)

\* the third packet failed: three were sent, the query was queued after them
C16_Witness ==
    /\ Len(intr_sent) = 3
    /\ intr_sent[3].ret # 0
    /\ pc = "bound"
    /\ submits[1].ret = 0
    /\ submits[1].intr = 3

\* all five packets were acknowledged before the query
C16_WitnessComplete ==
    /\ Len(intr_sent) = setup_arr_length
    /\ intr_sent[setup_arr_length].ret = 0
    /\ pc = "bound"

C18_CatalogContiguous ==
    /\ twi \in {NULL} \cup CatalogIndexes
    /\ \A i \in CatalogIndexes, j \in CatalogIndexes :
          (i < j /\ info(i).model = info(j).model) =>
              \A k \in i..j : info(k).model = info(i).model

----------------------------------------------------------------------------
(* The decoder on replies built from every pair of codes *)

CodecMax == 15

\* the 8-bit codes tried: the low ones, and the two around the sign bit
\* and the top of the range
CodecBytes == (0..CodecMax) \cup {127, 128, 255}

\* sizeof of the layout a tag announces: the type and data.a, or the type
\* and data.b
LayoutSize(tag) == IF tag = 73 THEN ResponseSize ELSE BytesNeeded

\* byte i of the buffer after a reply of the layout's size arrived in it
EncodeByte(tag, attachment, model, fill, i) ==
    IF i <= LayoutSize(tag) THEN ReplyByte(tag, attachment, model, fill, i) ELSE 0

Encode(tag, attachment, model, fill) ==
    [i \in 1..ResponseSize |-> EncodeByte(tag, attachment, model, fill, i)]

\* the response buffer holds Encode(tag, attachment, model, fill)
Encoded(tag, attachment, model, fill) ==
    \A i \in 1..ResponseSize : response[i] = EncodeByte(tag, attachment, model, fill, i)

\* the session before the probe, as Init sets it
Unbound ==
    [mem |-> [b \in Buffers |-> "unalloc"], refs |-> [dev |-> 0, intf |-> 0],
     hw |-> FALSE,
     urb |-> [reject |-> 0, use_count |-> 0, complete |-> "none", status |-> 0,
              actual_length |-> 0, unlinked |-> FALSE],
     inflight |-> <<>>, change_wValue |-> 0, submits |-> <<>>,
     intr_sent |-> <<>>, log |-> {}, ret |-> 0, interface |-> NULL]

\* the state in which the usb core calls thrustmaster_model_handler: the
\* probe of a wheel that needs the query succeeded, and the query completed
\* with status 0 after the device wrote a reply built by Encode
CodecInit ==
    /\ bigEndian \in BOOLEAN
    /\ frontend = "hid"
    /\ idProduct \in thrustmaster_hid_devices \ {T128}
    /\ numEndpoints = 2
    /\ pc = "bound"
    /\ probe_ret = 0
    /\ handler = "model"
    /\ decoded = NotDecoded
    /\ twi = NULL
    /\ inflight = <<>>
    /\ LET P == thrustmaster_hid_probe(Unbound, "none", TRUE, 2,
                                       setup_arr_length, 0, 0)
       IN  /\ mem = P.mem
           /\ refs = P.refs
           /\ hw = P.hw
           /\ change_wValue = P.change_wValue
           /\ submits = P.submits
           /\ intr_sent = P.intr_sent
           /\ log = P.log
           /\ \E tag \in {73, 71} :
                 /\ urb = [P.urb EXCEPT !.status = 0,
                                        !.actual_length = LayoutSize(tag)]
                 /\ \E attachment \in CodecBytes, model \in CodecBytes,
                       fill \in ReservedBytes :
                       response = Encode(tag, attachment, model, fill)

CodecNext == thrustmaster_model_handler

SpecCodec == CodecInit /\ [][CodecNext]_vars

\* C19: decoding round-trips for both layouts: a buffer built with tag
\* 0x0049 or 0x0047 and with attachment and model at the layout's offsets
\* decodes to the same (model, attachment), whatever the reserved fields hold.
C19_RoundTrip ==
    (handler = "model_done" /\ urb.status = 0) =>
        \A tag \in {73, 71}, attachment \in CodecBytes, model \in CodecBytes,
           fill \in ReservedBytes :
            Encoded(tag, attachment, model, fill) =>
                decoded = [known |-> TRUE, model |-> model, attachment |-> attachment]

\* an 'A' reply with model 255, attachment 128 and the reserved fields set
C19_Witness ==
    /\ handler = "model_done"
    /\ response = Encode(73, 128, 255, 255)
    /\ decoded = [known |-> TRUE, model |-> 255, attachment |-> 128]

\* the same pair in the shorter 'B' layout
C19_WitnessB ==
    /\ handler = "model_done"
    /\ response = Encode(71, 128, 255, 0)
    /\ decoded = [known |-> TRUE, model |-> 255, attachment |-> 128]


----------------------------------------------------------------------------
(* Termination of a session that is not detached *)

\* one reply for each way thrustmaster_model_handler can go: tag 0x0049 or
\* 0x0001, model 0x02 or 0x04, attachment 0x00 or 0x07, cut after the tag or
\* whole
LiveReplies ==
    {r \in Replies :
        /\ r.n \in {2, ResponseSize}
        /\ r.bytes[1] \in {73, 1} /\ r.bytes[2] = 0
        /\ r.n = ResponseSize =>
              /\ r.bytes[3] = 0
              /\ r.bytes[7] \in {0, 7}
              /\ r.bytes[8] \in {2, 4}}

giveback_ok_live == giveback_ok_of(LiveReplies)

\* the steps of a session whose device stays plugged in
NextLive ==
    \/ Probe
    \/ giveback_error
    \/ giveback_ok_live
    \/ thrustmaster_model_handler
    \/ thrustmaster_change_handler
    \/ giveback_return

\* the usb core gives every queued request back (with or without error) and
\* runs its completion handler to the end
SpecLive ==
    /\ Init
    /\ [][NextLive]_vars
    /\ WF_vars(giveback_error \/ giveback_ok_live)
    /\ WF_vars(thrustmaster_model_handler)
    /\ WF_vars(thrustmaster_change_handler)
    /\ WF_vars(giveback_return)

SwitchSubmitError == "Error while submitting the change URB" \in log

\* the handshake has ended, in Done or in a reported error, and nothing is
\* queued or running any more
Settled ==
    /\ \/ Done
       \/ SwitchTransportError
       \/ QueryTransportError
       \/ UnrecognizedResponse
       \/ UnknownModel
       \/ SwitchSubmitError
    /\ inflight = <<>>
    /\ handler = "none"
    /\ urb.use_count = 0

\* C20: when every queued request is completed and no detach occurs, every
\* session whose start succeeded eventually reaches a terminal outcome (Done
\* or a reported error) and stays there, also when the switch submit made
\* from the query's completion handler is refused.
C20_Terminates == [](pc = "bound" => <>[]Settled)

\* the model was resolved, the switch submit was refused in the handler, and
\* the session came to rest with that error reported
C20_Witness ==
    /\ pc = "bound"
    /\ ModelResolved
    /\ SwitchSubmitError
    /\ Len(submits) = 2
    /\ submits[2].ctx = "model_handler"
    /\ submits[2].ret # 0
    /\ Settled

=============================================================================
